---- MODULE Spec2Model ----
(***************************************************************************)
(* Model of tools/color_rules/code-generator.py: the load / normalize /    *)
(* validate / generate pipeline of the BCBS 239 color rules generator.     *)
(*                                                                         *)
(* Python values are tagged records.  A Python str is a sequence of atoms, *)
(* each atom a piece of its text: single characters where the code looks   *)
(* at characters (labels, digits), whole chunks for fixed text, and one    *)
(* atom per "@@NAME@@" placeholder.  A Python dict is the sequence of its  *)
(* items in insertion order.  A float is a whole number of tenths.         *)
(***************************************************************************)
EXTENDS Integers, Sequences, FiniteSets, TLC

VARIABLES pc, raw, cmd, write_fragments, cfg, schema, exc, blocks, cards, files

vars == <<pc, raw, cmd, write_fragments, cfg, schema, exc, blocks, cards, files>>

---------------------------------------------------------------------------
(* Bounds of the enumerated inputs *)

MaxScoreTenths == 2
MaxCount == 3
MaxDims == 2
MaxLabelLen == 4

---------------------------------------------------------------------------
(* Python values *)

PyNone == [t |-> "none"]
PyInt(n) == [t |-> "int", i |-> n]
PyFloat(x) == [t |-> "float", f |-> x]
PyStr(s) == [t |-> "str", s |-> s]
PyDict(items) == [t |-> "dict", m |-> items]
PyBool(b) == [t |-> "bool", b |-> b]

EmptyStr == PyStr(<< >>)
EmptyDict == PyDict(<< >>)

isinstance_dict(v) == v.t = "dict"
isinstance_str(v) == v.t = "str"

\* Python truth value of v (used by `x or y`, `if not x`)
Truthy(v) ==
  CASE v.t = "none" -> FALSE
    [] v.t = "bool" -> v.b
    [] v.t = "int" -> v.i # 0
    [] v.t = "float" -> v.f # 0
    [] v.t = "str" -> v.s # << >>
    [] v.t = "dict" -> v.m # << >>

\* Python `a or b`
Or(a, b) == IF Truthy(a) THEN a ELSE b

\* `key in d`
Contains(d, key) == \E n \in 1..Len(d.m) : d.m[n].k = key

\* d.get(key, default)
dict_get(d, key, default) ==
  IF Contains(d, key)
  THEN d.m[CHOOSE n \in 1..Len(d.m) : d.m[n].k = key].v
  ELSE default

\* d.get(key)
Get(d, key) == dict_get(d, key, PyNone)

\* (d.get(key) or {})
Sub(d, key) == Or(Get(d, key), EmptyDict)

\* d[key] = value on a copy of d: an existing key keeps its position
dict_set(d, key, value) ==
  IF Contains(d, key)
  THEN PyDict([n \in 1..Len(d.m) |->
                 IF d.m[n].k = key THEN [k |-> key, v |-> value] ELSE d.m[n]])
  ELSE PyDict(Append(d.m, [k |-> key, v |-> value]))

RECURSIVE UpdateItems(_, _)
\* d.update(items), items a sequence of (key, value)
UpdateItems(d, items) ==
  IF items = << >> THEN d
  ELSE UpdateItems(dict_set(d, Head(items).k, Head(items).v), Tail(items))

Keys(d) == [n \in 1..Len(d.m) |-> d.m[n].k]

Item(key, value) == [k |-> key, v |-> value]

---------------------------------------------------------------------------
(* Exceptions and results *)

NoExc == [kind |-> "none", text |-> "", path |-> "", vals |-> << >>]
SystemExit(text, path, vals) ==
  [kind |-> "SystemExit", text |-> text, path |-> path, vals |-> vals]
Unhandled(kind, what) == [kind |-> kind, text |-> what, path |-> "", vals |-> << >>]

Ok(v) == [ok |-> TRUE, val |-> v, exc |-> NoExc]
Raise(e) == [ok |-> FALSE, val |-> PyNone, exc |-> e]

---------------------------------------------------------------------------
(* Numeric conversions *)

Digits == <<"0", "1", "2", "3", "4", "5", "6", "7", "8", "9">>
IsDigit(c) == \E d \in 1..10 : Digits[d] = c
DigitValue(c) == (CHOOSE d \in 1..10 : Digits[d] = c) - 1

\* text of a decimal integer literal: digits only, at least one
IsIntLiteral(s) == s # << >> /\ \A n \in 1..Len(s) : IsDigit(s[n])

RECURSIVE ParseInt(_)
ParseInt(s) ==
  IF s = << >> THEN 0
  ELSE 10 * ParseInt(SubSeq(s, 1, Len(s) - 1)) + DigitValue(s[Len(s)])

RECURSIVE NatToStr(_)
NatToStr(n) ==
  IF n < 10 THEN <<Digits[n + 1]>>
  ELSE NatToStr(n \div 10) \o <<Digits[(n % 10) + 1]>>

\* str(n) of an int
IntToStr(n) == IF n < 0 THEN <<"-">> \o NatToStr(-n) ELSE NatToStr(n)

\* str(x) of a float held in tenths, e.g. 90.0
FloatToStr(x) ==
  IF x < 0 THEN <<"-">> \o NatToStr((-x) \div 10) \o <<".">> \o NatToStr((-x) % 10)
  ELSE NatToStr(x \div 10) \o <<".">> \o NatToStr(x % 10)

\* str(v)
str(v) ==
  CASE v.t = "none" -> <<"None">>
    [] v.t = "bool" -> IF v.b THEN <<"True">> ELSE <<"False">>
    [] v.t = "int" -> IntToStr(v.i)
    [] v.t = "float" -> FloatToStr(v.f)
    [] v.t = "str" -> v.s
    [] v.t = "dict" -> <<"{...}">>

\* float(v): the tenths, or the built-in's TypeError / ValueError
float(v) ==
  CASE v.t = "float" -> Ok(PyFloat(v.f))
    [] v.t = "int" -> Ok(PyFloat(10 * v.i))
    [] v.t = "bool" -> Ok(PyFloat(IF v.b THEN 10 ELSE 0))
    [] v.t = "str" -> IF IsIntLiteral(v.s) THEN Ok(PyFloat(10 * ParseInt(v.s)))
                      ELSE Raise(Unhandled("ValueError", "float"))
    [] OTHER -> Raise(Unhandled("TypeError", "float"))

\* int(v): truncation toward zero for a float
int(v) ==
  CASE v.t = "int" -> Ok(PyInt(v.i))
    [] v.t = "bool" -> Ok(PyInt(IF v.b THEN 1 ELSE 0))
    [] v.t = "float" -> Ok(PyInt(IF v.f < 0 THEN -((-v.f) \div 10) ELSE v.f \div 10))
    [] v.t = "str" -> IF IsIntLiteral(v.s) THEN Ok(PyInt(ParseInt(v.s)))
                      ELSE Raise(Unhandled("ValueError", "int"))
    [] OTHER -> Raise(Unhandled("TypeError", "int"))

_as_float(value, path) ==
  IF float(value).ok THEN float(value)
  ELSE Raise(SystemExit("Invalid numeric value", path, <<value>>))

_as_int(value, path) ==
  IF int(value).ok THEN int(value)
  ELSE Raise(SystemExit("Invalid integer value", path, <<value>>))

---------------------------------------------------------------------------
(* Built-in templates, cut at their placeholders *)

DEFAULT_dimension_score_html ==
  << "<!-- ",
     "@@DIMENSION_NAME@@",
     " -->\n<div>\n    <div class=\"flex justify-between items-center mb-2\">\n        <div>\n            <h4 class=\"text-lg font-bold text-gray-900\">",
     "@@LABEL_IT@@",
     " (",
     "@@LABEL_EN@@",
     ")</h4>\n            <p class=\"text-sm text-gray-600\">",
     "@@DESCRIPTION_IT@@",
     "</p>\n        </div>\n        <div class=\"text-right\">\n            <span class=\"text-3xl font-bold\"\n                  th:classappend=\"${",
     "@@VAR@@",
     " != null && ",
     "@@VAR@@",
     " >= ",
     "@@THRESH_EXCELLENT@@",
     " ? 'text-green-600' :\n                                  ",
     "@@VAR@@",
     " != null && ",
     "@@VAR@@",
     " >= ",
     "@@THRESH_ACCEPTABLE@@",
     " ? 'text-amber-600' :\n                                  'text-red-600'}\"\n                  th:text=\"${#numbers.formatDecimal((",
     "@@VAR@@",
     " != null ? ",
     "@@VAR@@",
     " : 0), 1, 1)} + '%'\"><span>0.0%</span></span>\n            <p class=\"text-xs font-semibold\"\n               th:classappend=\"${",
     "@@VAR@@",
     " != null && ",
     "@@VAR@@",
     " >= ",
     "@@THRESH_EXCELLENT@@",
     " ? 'text-green-600' :\n                               ",
     "@@VAR@@",
     " != null && ",
     "@@VAR@@",
     " >= ",
     "@@THRESH_ACCEPTABLE@@",
     " ? 'text-amber-600' :\n                               'text-red-600'}\"><span th:text=\"${",
     "@@ERROR_VAR@@",
     "}\">0</span> ",
     "@@ERROR_LABEL_IT@@",
     "</p>\n        </div>\n    </div>\n    <div class=\"w-full bg-gray-200 rounded-full h-4\">\n        <div class=\"h-4 rounded-full\"\n             th:style=\"${'width: ' + (",
     "@@VAR@@",
     " != null ? ",
     "@@VAR@@",
     " : 0) + '%'}\"\n             th:classappend=\"${",
     "@@VAR@@",
     " != null && ",
     "@@VAR@@",
     " >= ",
     "@@THRESH_EXCELLENT@@",
     " ? 'bg-green-600' :\n                             ",
     "@@VAR@@",
     " != null && ",
     "@@VAR@@",
     " >= ",
     "@@THRESH_ACCEPTABLE@@",
     " ? 'bg-amber-500' :\n                             'bg-red-600'}\"></div>\n    </div>\n</div>",
     "\n" >>

DEFAULT_error_distribution_card_html ==
  << "<!-- ",
     "@@DIMENSION_NAME@@",
     " Error Card -->\n<div class=\"rounded-lg p-6 border-2\"\n   th:with=\"severity=${",
     "@@ERROR_VAR@@",
     " > ",
     "@@THRESH_CRITICAL@@",
     " ? 'critical' : ",
     "@@ERROR_VAR@@",
     " > ",
     "@@THRESH_HIGH@@",
     " ? 'high' : ",
     "@@ERROR_VAR@@",
     " > ",
     "@@THRESH_MEDIUM@@",
     " ? 'medium' : 'low'}\"\n   th:classappend=\"${severity == 'critical' ? 'bg-red-50 border-red-200' :\n           severity == 'high' ? 'bg-orange-50 border-orange-200' :\n           severity == 'medium' ? 'bg-yellow-50 border-yellow-200' :\n           'bg-green-50 border-green-200'}\">\n  <div class=\"flex justify-between items-start mb-4\">\n    <div>\n      <p class=\"text-sm font-semibold\"\n         th:classappend=\"${severity == 'critical' ? 'text-red-800' :\n                 severity == 'high' ? 'text-orange-800' :\n                 severity == 'medium' ? 'text-yellow-800' :\n                 'text-green-800'}\">",
     "@@DIMENSION_LABEL@@",
     "</p>\n      <p class=\"text-xs mt-1\"\n         th:classappend=\"${severity == 'critical' ? 'text-red-600' :\n                 severity == 'high' ? 'text-orange-600' :\n                 severity == 'medium' ? 'text-yellow-600' :\n                 'text-green-600'}\"\n         th:text=\"${severity == 'critical' ? '",
     "@@LABEL_CRITICAL_IT@@",
     "' :\n             severity == 'high' ? '",
     "@@LABEL_HIGH_IT@@",
     "' :\n             severity == 'medium' ? '",
     "@@LABEL_MEDIUM_IT@@",
     "' :\n             '",
     "@@LABEL_LOW_IT@@",
     "'}\">",
     "@@SUBTITLE_FALLBACK_IT@@",
     "</p>\n    </div>\n    <span class=\"text-3xl font-bold\"\n        th:classappend=\"${severity == 'critical' ? 'text-red-600' :\n                severity == 'high' ? 'text-orange-600' :\n                severity == 'medium' ? 'text-yellow-600' :\n                'text-green-600'}\"\n        th:text=\"${",
     "@@ERROR_VAR@@",
     "}\">0</span>\n  </div>\n  <div class=\"w-full rounded-full h-3\"\n     th:classappend=\"${severity == 'critical' ? 'bg-red-200' :\n             severity == 'high' ? 'bg-orange-200' :\n             severity == 'medium' ? 'bg-yellow-200' :\n             'bg-green-200'}\">\n    <div class=\"h-3 rounded-full\"\n       th:classappend=\"${severity == 'critical' ? 'bg-red-600' :\n               severity == 'high' ? 'bg-orange-600' :\n               severity == 'medium' ? 'bg-yellow-600' :\n               'bg-green-600'}\"\n       th:style=\"${'width: ' + (maxCnt > 0 ? ((",
     "@@ERROR_VAR@@",
     " * 100.0) / maxCnt) : 0) + '%'}\" style=\"width: 100%\"></div>\n  </div>\n    <p class=\"text-xs mt-2\"\n     th:classappend=\"${severity == 'critical' ? 'text-red-700' :\n             severity == 'high' ? 'text-orange-700' :\n             severity == 'medium' ? 'text-yellow-700' :\n             'text-green-700'}\"><span th:text=\"${qualityResults.totalErrors > 0 ? #numbers.formatDecimal((",
     "@@ERROR_VAR@@",
     " * 100.0) / qualityResults.totalErrors, 1, 1) : '0.0'}\">62.5</span>% degli errori totali</p>\n    </div>",
     "\n" >>

DEFAULT_TEMPLATES ==
  PyDict(<< Item("dimension_score_html", PyStr(DEFAULT_dimension_score_html)),
            Item("error_distribution_card_html", PyStr(DEFAULT_error_distribution_card_html)) >>)

---------------------------------------------------------------------------
(* Schema detection and normalization *)

\* the test without its check of `global`
_is_complete_schema_NoGlobal(r) ==
  LET dim == Get(r, "dimension_scores")
      err == Get(r, "error_distribution")
  IN  isinstance_dict(dim) /\ isinstance_dict(err) /\ Contains(dim, "enabled")

\* the test looking at the two sections only
_is_complete_schema_SectionsOnly(r) ==
  isinstance_dict(Get(r, "dimension_scores")) /\ isinstance_dict(Get(r, "error_distribution"))

\* raw.get("global") etc.: `"enabled" in dim` looks at the keys of dimension_scores itself
_is_complete_schema(r) ==
  LET dim == Get(r, "dimension_scores")
      err == Get(r, "error_distribution")
  IN  /\ isinstance_dict(Get(r, "global"))
      /\ isinstance_dict(dim)
      /\ isinstance_dict(err)
      /\ Contains(dim, "enabled")

IsSpace(a) == a \in {" ", "\n", "\t"}

RECURSIVE LStrip(_)
LStrip(s) == IF s # << >> /\ IsSpace(Head(s)) THEN LStrip(Tail(s)) ELSE s

RECURSIVE RStrip(_)
RStrip(s) ==
  IF s # << >> /\ IsSpace(s[Len(s)]) THEN RStrip(SubSeq(s, 1, Len(s) - 1)) ELSE s

\* s.strip()
Strip(s) == RStrip(LStrip(s))

\* `a in s` for a one-character a
HasChar(s, a) == \E n \in 1..Len(s) : s[n] = a

\* s.split(a, 1)[0]: the text before the first a
BeforeFirst(s, a) ==
  IF HasChar(s, a)
  THEN SubSeq(s, 1, (CHOOSE n \in 1..Len(s) : s[n] = a /\ \A j \in 1..(n - 1) : s[j] # a) - 1)
  ELSE s

\* s.endswith(a) for a one-character a
EndsWith(s, a) == s # << >> /\ s[Len(s)] = a

\* the cleaning without the strip of the text before the parenthesis
_clean_label_it_NoTrim(value) ==
  LET s == Strip(Or(value, EmptyStr).s)
  IN  IF HasChar(s, "(") /\ EndsWith(s, ")") THEN PyStr(BeforeFirst(s, "(")) ELSE PyStr(s)

_clean_label_it(value) ==
  LET s == Strip(Or(value, EmptyStr).s)
  IN  IF HasChar(s, "(") /\ EndsWith(s, ")")
      THEN PyStr(Strip(BeforeFirst(s, "(")))
      ELSE PyStr(s)

\* one entry of dimensions_out
DimensionOut(d) ==
  PyDict(<< Item("variable",
                 Or(Or(Or(Get(d, "variable_score"), Get(d, "variable")), Get(d, "id")), EmptyStr)),
            Item("error_variable",
                 Or(Or(Get(d, "variable_error"), Get(d, "error_variable")), EmptyStr)),
            Item("label_it", _clean_label_it(Get(d, "label_it"))),
            Item("label_en", Or(Get(d, "label_en"), EmptyStr)),
            Item("description_it", Or(Get(d, "description_it"), EmptyStr)),
            Item("error_label_it", PyStr(<<"ERRORI">>)) >>)

RECURSIVE DimensionsOut(_)
\* the loop building dimensions_out: non-mapping entries are skipped
DimensionsOut(items) ==
  IF items = << >> THEN << >>
  ELSE (IF isinstance_dict(Head(items).v)
        THEN <<Item(Head(items).k, DimensionOut(Head(items).v))>>
        ELSE << >>) \o DimensionsOut(Tail(items))

_mk_min_count(threshold_value, path) ==
  LET r == _as_int(threshold_value, path)
  IN  IF r.ok THEN Ok(PyInt(r.val.i + 1)) ELSE r

ordered ==
  << [key |-> "completeness", label |-> "COMPLETENESS", subtitle |-> "Dimensione più problematica"],
     [key |-> "accuracy", label |-> "ACCURACY", subtitle |-> "Seconda dimensione critica"],
     [key |-> "consistency", label |-> "CONSISTENCY", subtitle |-> "Terza dimensione critica"] >>

RECURSIVE ErrorCards_NoSkip(_, _)
\* the loop without `if not var_cnt: continue`
ErrorCards_NoSkip(dim_defs, todo) ==
  IF todo = << >> THEN << >>
  ELSE LET o == Head(todo)
           d == Sub(dim_defs, o.key)
       IN  (IF isinstance_dict(d)
            THEN <<Item(o.key, PyDict(<< Item("variable", Get(d, "variable_count")),
                                         Item("label", PyStr(<<o.label>>)),
                                         Item("subtitle_fallback_it", PyStr(<<o.subtitle>>)) >>))>>
            ELSE << >>) \o ErrorCards_NoSkip(dim_defs, Tail(todo))

RECURSIVE ErrorCards(_, _)
\* the loop building error_cards over `ordered`
ErrorCards(dim_defs, todo) ==
  IF todo = << >> THEN << >>
  ELSE LET o == Head(todo)
           d == Sub(dim_defs, o.key)
       IN  (IF isinstance_dict(d) /\ Truthy(Get(d, "variable_count"))
            THEN <<Item(o.key, PyDict(<< Item("variable", Get(d, "variable_count")),
                                         Item("label", PyStr(<<o.label>>)),
                                         Item("subtitle_fallback_it", PyStr(<<o.subtitle>>)) >>))>>
            ELSE << >>) \o ErrorCards(dim_defs, Tail(todo))

_normalize_complete(r) ==
  LET dim_raw == Sub(r, "dimension_scores")
      dim_thresholds_raw == Sub(dim_raw, "thresholds")
      excellent_value == _as_float(Get(Sub(dim_thresholds_raw, "excellent"), "value"),
                                   "dimension_scores.thresholds.excellent.value")
      acceptable_value == _as_float(Get(Sub(dim_thresholds_raw, "acceptable"), "value"),
                                    "dimension_scores.thresholds.acceptable.value")
      dimensions_out == DimensionsOut(Sub(dim_raw, "dimensions").m)
      err_raw == Sub(r, "error_distribution")
      err_thresholds_raw == Sub(err_raw, "thresholds")
      critical == _mk_min_count(Get(Sub(err_thresholds_raw, "critical"), "value"),
                                "error_distribution.thresholds.critical.value")
      high == _mk_min_count(Get(Sub(err_thresholds_raw, "high"), "value"),
                            "error_distribution.thresholds.high.value")
      medium == _mk_min_count(Get(Sub(err_thresholds_raw, "medium"), "value"),
                              "error_distribution.thresholds.medium.value")
      low == _as_int(dict_get(Sub(err_thresholds_raw, "low"), "threshold_value", PyInt(10)),
                     "error_distribution.thresholds.low.threshold_value")
      label(name, default) ==
        dict_get(Sub(err_thresholds_raw, name), "label_it", PyStr(<<default>>))
      thresholds_out ==
        PyDict(<< Item("critical", PyDict(<< Item("min_count", critical.val),
                                             Item("label_it", label("critical", "Situazione critica!")) >>)),
                  Item("high", PyDict(<< Item("min_count", high.val),
                                         Item("label_it", label("high", "Richiede attenzione")) >>)),
                  Item("medium", PyDict(<< Item("min_count", medium.val),
                                           Item("label_it", label("medium", "Errori moderati")) >>)),
                  Item("low", PyDict(<< Item("max_count", low.val),
                                        Item("label_it", label("low", "Errori minimi")) >>)) >>)
      error_cards == ErrorCards(Sub(dim_raw, "dimensions"), ordered)
  IN  IF ~excellent_value.ok THEN excellent_value
      ELSE IF ~acceptable_value.ok THEN acceptable_value
      ELSE IF ~critical.ok THEN critical
      ELSE IF ~high.ok THEN high
      ELSE IF ~medium.ok THEN medium
      ELSE IF ~low.ok THEN low
      ELSE Ok(PyDict(<<
             Item("dimension_scores", PyDict(<<
               Item("thresholds", PyDict(<<
                 Item("excellent", PyDict(<<Item("percentage", excellent_value.val)>>)),
                 Item("acceptable", PyDict(<<Item("min_percentage", acceptable_value.val)>>)) >>)),
               Item("dimensions", PyDict(dimensions_out)) >>)),
             Item("error_distribution", PyDict(<<
               Item("thresholds", thresholds_out),
               Item("dimensions", PyDict(error_cards)) >>)),
             Item("templates", DEFAULT_TEMPLATES) >>))

RECURSIVE StrItems(_)
\* {k: v for k, v in templates.items() if isinstance(v, str)}
StrItems(items) ==
  IF items = << >> THEN << >>
  ELSE (IF isinstance_str(Head(items).v) THEN <<Head(items)>> ELSE << >>)
       \o StrItems(Tail(items))

\* the legacy branch of _normalize_config
NormalizeLegacy(r) ==
  LET t0 == Or(Get(r, "templates"), EmptyDict)
      templates == IF isinstance_dict(t0) THEN t0 ELSE EmptyDict
  IN  IF ~Contains(templates, "dimension_score_html")
         \/ ~Contains(templates, "error_distribution_card_html")
      THEN dict_set(r, "templates", UpdateItems(DEFAULT_TEMPLATES, StrItems(templates.m)))
      ELSE r

\* the (config, schema) pair, or the fatal error of the complete branch
_normalize_config(r) ==
  IF _is_complete_schema(r)
  THEN LET n == _normalize_complete(r)
       IN  [ok |-> n.ok, val |-> n.val, exc |-> n.exc, schema |-> "complete"]
  ELSE [ok |-> TRUE, val |-> NormalizeLegacy(r), exc |-> NoExc, schema |-> "legacy"]

---------------------------------------------------------------------------
(* Validation *)

\* the test with `<` for `<=`
ScoreThresholdsInvalid_Strict(excellent_pct, acceptable_min) == excellent_pct < acceptable_min

\* the test of line 271 on the two percentages (tenths)
ScoreThresholdsInvalid(excellent_pct, acceptable_min) == excellent_pct <= acceptable_min

\* the chained comparison with `>=` for its first `>`
ErrorCountOrdering_NonStrict(critical_min, high_min, medium_min) ==
  critical_min >= high_min /\ high_min > medium_min /\ medium_min > 0

\* the chained comparison of line 284
ErrorCountOrdering(critical_min, high_min, medium_min) ==
  critical_min > high_min /\ high_min > medium_min /\ medium_min > 0

AttributeError == Unhandled("AttributeError", "get")

\* the second half of validate_rules: error distribution threshold ordering
ValidateErrorCounts(c) ==
  LET err == Sub(c, "error_distribution")
  IN  IF ~isinstance_dict(err) THEN Raise(AttributeError)
      ELSE
        LET t == Sub(err, "thresholds")
            critical_min == int(Get(Sub(t, "critical"), "min_count"))
            high_min == int(Get(Sub(t, "high"), "min_count"))
            medium_min == int(Get(Sub(t, "medium"), "min_count"))
        IN  IF ~critical_min.ok THEN critical_min
            ELSE IF ~high_min.ok THEN high_min
            ELSE IF ~medium_min.ok THEN medium_min
            ELSE IF ~ErrorCountOrdering(critical_min.val.i, high_min.val.i, medium_min.val.i)
            THEN Raise(SystemExit("Invalid error count ordering", "",
                                  <<critical_min.val, high_min.val, medium_min.val>>))
            ELSE Ok(PyNone)

validate_rules(c) ==
  LET dim == Sub(c, "dimension_scores")
  IN  IF ~isinstance_dict(dim) THEN Raise(AttributeError)
      ELSE
        LET thresholds == Sub(dim, "thresholds")
            excellent_pct == float(Get(Sub(thresholds, "excellent"), "percentage"))
            acceptable_min == float(Get(Sub(thresholds, "acceptable"), "min_percentage"))
        IN  IF ~excellent_pct.ok THEN excellent_pct
            ELSE IF ~acceptable_min.ok THEN acceptable_min
            ELSE IF ScoreThresholdsInvalid(excellent_pct.val.f, acceptable_min.val.f)
            THEN Raise(SystemExit("Invalid dimension score thresholds", "",
                                  <<excellent_pct.val, acceptable_min.val>>))
            ELSE ValidateErrorCounts(c)

---------------------------------------------------------------------------
(* Rendering *)

RECURSIVE replace(_, _, _)
\* s.replace(token, value), token one atom of the text: every occurrence, left to right
replace(s, token, value) ==
  IF s = << >> THEN << >>
  ELSE IF Len(s) = 1 THEN (IF s[1] = token THEN value ELSE s)
  ELSE LET half == Len(s) \div 2
       IN  replace(SubSeq(s, 1, half), token, value)
           \o replace(SubSeq(s, half + 1, Len(s)), token, value)

RECURSIVE ReplaceAll(_, _)
\* the loop `for token, value in replacements.items(): out = out.replace(token, str(value))`
ReplaceAll(out, replacements) ==
  IF replacements = << >> THEN out
  ELSE ReplaceAll(replace(out, Head(replacements).k, str(Head(replacements).v)),
                  Tail(replacements))

\* the block renderer with "@@ERROR_VAR@@" left out of its replacements
_render_dimension_block_NoErrorVar(template, dim_cfg, thresholds) ==
  IF ~isinstance_dict(dim_cfg) THEN Raise(AttributeError)
  ELSE IF ~Contains(dim_cfg, "variable") THEN Raise(Unhandled("KeyError", "variable"))
  ELSE IF ~Contains(dim_cfg, "error_variable") THEN Raise(Unhandled("KeyError", "error_variable"))
  ELSE IF ~isinstance_str(template) THEN Raise(Unhandled("AttributeError", "replace"))
  ELSE
    LET excel == Get(Get(thresholds, "excellent"), "percentage")
        acceptable_min == Get(Get(thresholds, "acceptable"), "min_percentage")
        replacements ==
          << Item("@@DIMENSION_NAME@@", dict_get(dim_cfg, "label_en", EmptyStr)),
             Item("@@LABEL_IT@@", dict_get(dim_cfg, "label_it", EmptyStr)),
             Item("@@LABEL_EN@@", dict_get(dim_cfg, "label_en", EmptyStr)),
             Item("@@DESCRIPTION_IT@@", dict_get(dim_cfg, "description_it", EmptyStr)),
             Item("@@ERROR_LABEL_IT@@", dict_get(dim_cfg, "error_label_it", PyStr(<<"ERRORI">>))),
             Item("@@VAR@@", Get(dim_cfg, "variable")),
             Item("@@THRESH_EXCELLENT@@", PyStr(str(excel))),
             Item("@@THRESH_ACCEPTABLE@@", PyStr(str(acceptable_min))) >>
    IN  Ok(PyStr(ReplaceAll(template.s, replacements)))

_render_dimension_block(template, dim_cfg, thresholds) ==
  IF ~isinstance_dict(dim_cfg) THEN Raise(AttributeError)
  ELSE IF ~Contains(dim_cfg, "variable") THEN Raise(Unhandled("KeyError", "variable"))
  ELSE IF ~Contains(dim_cfg, "error_variable") THEN Raise(Unhandled("KeyError", "error_variable"))
  ELSE IF ~isinstance_str(template) THEN Raise(Unhandled("AttributeError", "replace"))
  ELSE
    LET excel == Get(Get(thresholds, "excellent"), "percentage")
        acceptable_min == Get(Get(thresholds, "acceptable"), "min_percentage")
        replacements ==
          << Item("@@DIMENSION_NAME@@", dict_get(dim_cfg, "label_en", EmptyStr)),
             Item("@@LABEL_IT@@", dict_get(dim_cfg, "label_it", EmptyStr)),
             Item("@@LABEL_EN@@", dict_get(dim_cfg, "label_en", EmptyStr)),
             Item("@@DESCRIPTION_IT@@", dict_get(dim_cfg, "description_it", EmptyStr)),
             Item("@@ERROR_LABEL_IT@@", dict_get(dim_cfg, "error_label_it", PyStr(<<"ERRORI">>))),
             Item("@@VAR@@", Get(dim_cfg, "variable")),
             Item("@@ERROR_VAR@@", Get(dim_cfg, "error_variable")),
             Item("@@THRESH_EXCELLENT@@", PyStr(str(excel))),
             Item("@@THRESH_ACCEPTABLE@@", PyStr(str(acceptable_min))) >>
    IN  Ok(PyStr(ReplaceAll(template.s, replacements)))

\* the comparison value without its decrement
ThresholdCmp_NoDecrement(thresholds, name) == int(Get(Get(thresholds, name), "min_count")).val.i

\* int(thresholds[name]["min_count"]) - 1
ThresholdCmp(thresholds, name) == int(Get(Get(thresholds, name), "min_count")).val.i - 1

\* `g` is the process-wide cfg the function reads its labels from
_render_error_card(template, card_cfg, thresholds, g) ==
  IF ~isinstance_dict(card_cfg) THEN Raise(AttributeError)
  ELSE IF ~Contains(card_cfg, "variable") THEN Raise(Unhandled("KeyError", "variable"))
  ELSE IF ~isinstance_str(template) THEN Raise(Unhandled("AttributeError", "replace"))
  ELSE
    LET labels == Get(Get(g, "error_distribution"), "thresholds")
        label(name, default) ==
          PyStr(str(dict_get(Sub(labels, name), "label_it", PyStr(<<default>>))))
        replacements ==
          << Item("@@DIMENSION_NAME@@", dict_get(card_cfg, "label", EmptyStr)),
             Item("@@DIMENSION_LABEL@@", dict_get(card_cfg, "label", EmptyStr)),
             Item("@@SUBTITLE_FALLBACK_IT@@", dict_get(card_cfg, "subtitle_fallback_it", EmptyStr)),
             Item("@@ERROR_VAR@@", Get(card_cfg, "variable")),
             Item("@@THRESH_CRITICAL@@", PyStr(IntToStr(ThresholdCmp(thresholds, "critical")))),
             Item("@@THRESH_HIGH@@", PyStr(IntToStr(ThresholdCmp(thresholds, "high")))),
             Item("@@THRESH_MEDIUM@@", PyStr(IntToStr(ThresholdCmp(thresholds, "medium")))),
             Item("@@LABEL_CRITICAL_IT@@", label("critical", "Situazione critica!")),
             Item("@@LABEL_HIGH_IT@@", label("high", "Richiede attenzione")),
             Item("@@LABEL_MEDIUM_IT@@", label("medium", "Errori moderati")),
             Item("@@LABEL_LOW_IT@@", label("low", "Errori minimi")) >>
    IN  Ok(PyStr(ReplaceAll(template.s, replacements)))

RECURSIVE RenderBlocks(_, _, _)
\* the loop filling `blocks`: the rendered texts, or the first exception
RenderBlocks(dim_tpl, items, thresholds) ==
  IF items = << >> THEN Ok(<< >>)
  ELSE LET b == _render_dimension_block(dim_tpl, Head(items).v, thresholds)
           rest == RenderBlocks(dim_tpl, Tail(items), thresholds)
       IN  IF ~b.ok THEN b
           ELSE IF ~rest.ok THEN rest
           ELSE Ok(<<b.val.s>> \o rest.val)

RECURSIVE RenderCards(_, _, _, _)
\* the loop filling `cards`
RenderCards(err_tpl, items, thresholds, g) ==
  IF items = << >> THEN Ok(<< >>)
  ELSE LET c == _render_error_card(err_tpl, Head(items).v, thresholds, g)
           rest == RenderCards(err_tpl, Tail(items), thresholds, g)
       IN  IF ~c.ok THEN c
           ELSE IF ~rest.ok THEN rest
           ELSE Ok(<<c.val.s>> \o rest.val)

RECURSIVE Join(_)
\* "\n\n".join(texts)
Join(texts) ==
  IF texts = << >> THEN << >>
  ELSE IF Len(texts) = 1 THEN Head(texts)
  ELSE Head(texts) \o <<"\n", "\n">> \o Join(Tail(texts))

\* "\n\n".join(texts).strip() + "\n"
Snippet(texts) == Strip(Join(texts)) \o <<"\n">>

_render_thymeleaf_fragments(dimension_blocks, error_cards) ==
  << "<!DOCTYPE html>\n<html xmlns:th=\"http://www.thymeleaf.org\">\n  <body>\n    <th:block th:fragment=\"dimensionScores\">\n" >>
  \o Strip(Join(dimension_blocks))
  \o << "\n    </th:block>\n\n    <th:block th:fragment=\"errorDistributionCards\">\n" >>
  \o Strip(Join(error_cards))
  \o << "\n    </th:block>\n  </body>\n</html>\n" >>

---------------------------------------------------------------------------
(* The configurations the YAML loader may hand over *)

\* marks a key left out of a mapping
Absent == [t |-> "absent"]
Field(key, value) == IF value = Absent THEN << >> ELSE <<Item(key, value)>>

ScoreVals ==
  {Absent, PyStr(<<"x">>), PyInt(0)} \cup {PyFloat(x) : x \in 0..MaxScoreTenths}
CountVals ==
  {Absent, PyStr(<<"x">>), PyStr(<<"2">>)} \cup {PyInt(n) : n \in (-1)..MaxCount}

GoodExcellent == PyFloat(MaxScoreTenths)
GoodAcceptable == PyFloat(0)

DimKeys == {"completeness", "accuracy", "consistency", "timeliness"}

LabelChars == {"a", " ", "(", ")"}
RECURSIVE TextsUpTo(_)
TextsUpTo(n) ==
  IF n = 0 THEN {<< >>}
  ELSE LET shorter == TextsUpTo(n - 1)
       IN  shorter \cup {Append(w, c) : w \in {x \in shorter : Len(x) = n - 1}, c \in LabelChars}
LabelVals == {Absent} \cup {PyStr(w) : w \in TextsUpTo(MaxLabelLen)}

\* one entry of dimension_scores.dimensions in the complete dialect
CompleteDimension(key, label_it, variable_count) ==
  PyDict(<< Item("enabled", PyBool(TRUE)),
            Item("variable_score", PyStr(<<"scores.", key>>)),
            Item("variable_error", PyStr(<<"errors.", key>>)) >>
         \o Field("variable_count", variable_count)
         \o Field("label_it", label_it)
         \o << Item("label_en", PyStr(<<"En.", key>>)),
               Item("description_it", PyStr(<<"Descrizione.", key>>)) >>)

CompleteDimVals(key) ==
  {PyStr(<<"scalar">>)}
  \cup {CompleteDimension(key, PyStr(<<"a", " ", "(", "a", ")">>), c) :
          c \in {Absent, EmptyStr, IF key = "completeness" THEN PyInt(42) ELSE PyStr(<<"counts.", key>>)}}

RECURSIVE CompleteDimLists(_)
\* the ordered dimension mappings of at most n distinct keys
CompleteDimLists(n) ==
  IF n = 0 THEN {<< >>}
  ELSE LET shorter == CompleteDimLists(n - 1)
           longest == {x \in shorter : Len(x) = n - 1}
       IN  shorter \cup
           UNION {UNION {{Append(x, Item(key, v)) : v \in CompleteDimVals(key)} :
                           key \in {q \in DimKeys : \A j \in 1..Len(x) : x[j].k # q}} :
                    x \in longest}

OneCompleteDim ==
  <<Item("completeness",
         CompleteDimension("completeness", PyStr(<<"a">>), PyStr(<<"counts.", "completeness">>)))>>

CompleteShape(global, enabled_top, thresholds, dims, err) ==
  PyDict(Field("global", global)
         \o << Item("dimension_scores",
                    PyDict(Field("enabled", enabled_top)
                           \o <<Item("thresholds", thresholds), Item("dimensions", PyDict(dims))>>)) >>
         \o Field("error_distribution", err))

CompleteScoreThresholds(e, a, nested) ==
  PyDict(<< Item("excellent", PyDict(Field("enabled", nested) \o Field("value", e))),
            Item("acceptable", PyDict(Field("value", a))) >>)

CompleteErrorDistribution(c, h, m) ==
  PyDict(<< Item("enabled", PyBool(TRUE)),
            Item("thresholds",
                 PyDict(<< Item("critical", PyDict(Field("value", c))),
                           Item("high", PyDict(Field("value", h))),
                           Item("medium", PyDict(Field("value", m))) >>)) >>)

CompleteRaw(e, a, c, h, m, dims) ==
  CompleteShape(PyDict(<<Item("version", PyStr(<<"1">>))>>), PyBool(TRUE),
                CompleteScoreThresholds(e, a, Absent), dims,
                CompleteErrorDistribution(c, h, m))

CompleteInputs ==
  {CompleteRaw(e, a, PyInt(2), PyInt(1), PyInt(0), OneCompleteDim) : e \in ScoreVals, a \in ScoreVals}
  \cup {CompleteRaw(GoodExcellent, GoodAcceptable, c, h, m, OneCompleteDim) :
          c \in CountVals, h \in CountVals, m \in CountVals}
  \cup {CompleteRaw(GoodExcellent, GoodAcceptable, PyInt(2), PyInt(1), PyInt(0), dims) :
          dims \in CompleteDimLists(MaxDims)}
  \cup {CompleteRaw(GoodExcellent, GoodAcceptable, PyInt(2), PyInt(1), PyInt(0),
                    <<Item("accuracy", CompleteDimension("accuracy", l, PyStr(<<"counts.", "accuracy">>)))>>) :
          l \in LabelVals}

\* every "@@NAME@@" placeholder the built-in templates carry
Markers ==
  {"@@DIMENSION_NAME@@", "@@LABEL_IT@@", "@@LABEL_EN@@", "@@DESCRIPTION_IT@@", "@@VAR@@",
   "@@THRESH_EXCELLENT@@", "@@THRESH_ACCEPTABLE@@", "@@ERROR_VAR@@", "@@ERROR_LABEL_IT@@",
   "@@DIMENSION_LABEL@@", "@@THRESH_CRITICAL@@", "@@THRESH_HIGH@@", "@@THRESH_MEDIUM@@",
   "@@LABEL_CRITICAL_IT@@", "@@LABEL_HIGH_IT@@", "@@LABEL_MEDIUM_IT@@", "@@LABEL_LOW_IT@@",
   "@@SUBTITLE_FALLBACK_IT@@"}

\* a complete-dialect dimension whose identifiers and English label vary: the
\* identifier may be left to the `id` fallback, be a number, or be text that
\* is itself a placeholder
IdentifiedDimension(key, variable_score, variable_error, label_en) ==
  PyDict(<<Item("enabled", PyBool(TRUE))>>
         \o Field("variable_score", variable_score)
         \o <<Item("id", PyStr(<<"id.", key>>))>>
         \o Field("variable_error", variable_error)
         \o << Item("label_it", PyStr(<<"a">>)),
               Item("label_en", label_en),
               Item("description_it", PyStr(<<"Descrizione.", key>>)) >>)

ScoreVariableVals(key) ==
  {Absent, PyStr(<<"scores.", key>>), PyInt(7), PyStr(<<"@@LABEL_IT@@">>), PyStr(<<"@@ERROR_VAR@@">>)}
ErrorVariableVals(key) == {Absent, PyStr(<<"errors.", key>>), PyStr(<<"@@VAR@@">>)}
LabelEnVals(key) == {PyStr(<<"En.", key>>), PyStr(<<"@@VAR@@">>), PyStr(<<"@@DIMENSION_LABEL@@">>)}

IdentifierInputs ==
  {CompleteRaw(GoodExcellent, GoodAcceptable, PyInt(2), PyInt(1), PyInt(0),
               << Item("timeliness", IdentifiedDimension("timeliness", v, e, l)),
                  Item("accuracy",
                       CompleteDimension("accuracy", PyStr(<<"a">>), PyStr(<<"counts.", "accuracy">>))) >>) :
     v \in ScoreVariableVals("timeliness"), e \in ErrorVariableVals("timeliness"),
     l \in LabelEnVals("timeliness")}

\* templates a legacy file may carry in place of the built-in ones
CustomDimTpl ==
  PyStr(<<"<b>", "@@LABEL_IT@@", "</b> ", "@@VAR@@", " >= ", "@@THRESH_EXCELLENT@@", " / ",
          "@@ERROR_VAR@@">>)
CustomErrTpl ==
  PyStr(<<"<i>", "@@DIMENSION_LABEL@@", "</i> ", "@@ERROR_VAR@@", " > ", "@@THRESH_CRITICAL@@",
          " ? 'critical' : ", "@@ERROR_VAR@@", " > ", "@@THRESH_HIGH@@", " ? 'high' : ",
          "@@ERROR_VAR@@", " > ", "@@THRESH_MEDIUM@@", " ? 'medium' : 'low'">>)

LegacyDimension(key, variable) ==
  PyDict(Field("variable", variable)
         \o << Item("error_variable", PyStr(<<"errors.", key>>)),
               Item("label_it", PyStr(<<"It.", key>>)),
               Item("label_en", PyStr(<<"En.", key>>)) >>)

LegacyCard(key, variable) ==
  PyDict(Field("variable", variable) \o <<Item("label", PyStr(<<"CARD.", key>>))>>)

LegacyRaw(e, a, c, h, m, dims, crds, templates) ==
  PyDict(<< Item("dimension_scores",
                 PyDict(<< Item("thresholds",
                                PyDict(<< Item("excellent", PyDict(Field("percentage", e))),
                                          Item("acceptable", PyDict(Field("min_percentage", a))) >>)),
                           Item("dimensions", PyDict(dims)) >>)),
            Item("error_distribution",
                 PyDict(<< Item("thresholds",
                                PyDict(<< Item("critical", PyDict(Field("min_count", c))),
                                          Item("high", PyDict(Field("min_count", h))),
                                          Item("medium", PyDict(Field("min_count", m))) >>)),
                           Item("dimensions", PyDict(crds)) >>)) >>
         \o Field("templates", templates))

OneLegacyDim == <<Item("completeness", LegacyDimension("completeness", PyStr(<<"scores.", "completeness">>)))>>
OneLegacyCard == <<Item("completeness", LegacyCard("completeness", PyStr(<<"counts.", "completeness">>)))>>

LegacyDimLists ==
  { << >>, OneLegacyDim,
    <<Item("completeness", LegacyDimension("completeness", Absent))>>,
    <<Item("completeness", PyStr(<<"scalar">>))>> }
LegacyCardLists ==
  { << >>, OneLegacyCard,
    <<Item("completeness", LegacyCard("completeness", Absent))>>,
    OneLegacyCard \o <<Item("accuracy", LegacyCard("accuracy", Absent))>>,
    <<Item("completeness", PyStr(<<"scalar">>))>> }

TemplateVals(custom) == {Absent, PyNone, PyInt(1), EmptyStr, custom}
LegacyTemplates ==
  {Absent, PyStr(<<"scalar">>)}
  \cup {PyDict(Field("dimension_score_html", d) \o Field("note", x)
               \o Field("error_distribution_card_html", c)) :
          d \in TemplateVals(CustomDimTpl), c \in TemplateVals(CustomErrTpl),
          x \in {Absent, PyStr(<<"x">>), PyInt(7)}}

LegacyInputs ==
  {LegacyRaw(e, a, PyInt(3), PyInt(2), PyInt(1), OneLegacyDim, OneLegacyCard, Absent) :
     e \in ScoreVals, a \in ScoreVals}
  \cup {LegacyRaw(GoodExcellent, GoodAcceptable, c, h, m, OneLegacyDim, OneLegacyCard, Absent) :
          c \in CountVals, h \in CountVals, m \in CountVals}
  \cup {LegacyRaw(GoodExcellent, GoodAcceptable, PyInt(3), PyInt(2), PyInt(1), OneLegacyDim, OneLegacyCard, t) :
          t \in LegacyTemplates}
  \cup {LegacyRaw(GoodExcellent, GoodAcceptable, PyInt(3), PyInt(2), PyInt(1), d, c, Absent) :
          d \in LegacyDimLists, c \in LegacyCardLists}

\* mappings that differ in the sections the schema test looks at
SectionVals(section) == {Absent, PyStr(<<"scalar">>), section}
ShapeInputs ==
  {CompleteShape(g, top, CompleteScoreThresholds(GoodExcellent, GoodAcceptable, nested),
                 OneCompleteDim, err) :
     g \in SectionVals(EmptyDict), top \in {Absent, PyBool(FALSE)},
     nested \in {Absent, PyBool(TRUE)},
     err \in SectionVals(CompleteErrorDistribution(PyInt(2), PyInt(1), PyInt(0)))}
  \cup {PyDict(Field("global", g) \o Field("dimension_scores", d) \o Field("error_distribution", err)) :
          g \in SectionVals(EmptyDict), d \in {Absent, PyStr(<<"scalar">>)},
          err \in SectionVals(CompleteErrorDistribution(PyInt(2), PyInt(1), PyInt(0)))}

\* what yaml.safe_load may return: the mappings above, or something that is no mapping
YamlDocuments ==
  CompleteInputs \cup IdentifierInputs \cup LegacyInputs \cup ShapeInputs
  \cup {PyNone, PyStr(<<"scalar">>)}

---------------------------------------------------------------------------
(* The run of main() *)

NotWritten == [written |-> FALSE, text |-> << >>]
Written(text) == [written |-> TRUE, text |-> text]

Running == exc = NoExc /\ pc # "done"

Init ==
  /\ pc = "load"
  /\ cmd \in {"validate", "generate"}
  /\ write_fragments \in BOOLEAN
  /\ (cmd = "validate" => ~write_fragments)
  /\ raw = PyNone
  /\ cfg = PyNone
  /\ schema = ""
  /\ exc = NoExc
  /\ blocks = << >>
  /\ cards = << >>
  /\ files = [dimension |-> NotWritten, error |-> NotWritten, fragments |-> NotWritten]

\* raw = _load_yaml(config_path)
LoadYaml ==
  /\ Running /\ pc = "load"
  /\ \E data \in YamlDocuments :
       /\ raw' = data
       /\ IF isinstance_dict(data)
          THEN pc' = "normalize" /\ exc' = exc
          ELSE pc' = pc /\ exc' = SystemExit("Invalid YAML: expected top-level mapping", "", << >>)
  /\ UNCHANGED <<cmd, write_fragments, cfg, schema, blocks, cards, files>>

\* cfg, schema = _normalize_config(raw)
Normalize ==
  /\ Running /\ pc = "normalize"
  /\ LET n == _normalize_config(raw)
     IN  IF n.ok
         THEN cfg' = n.val /\ schema' = n.schema /\ pc' = "validate" /\ exc' = exc
         ELSE cfg' = cfg /\ schema' = schema /\ pc' = pc /\ exc' = n.exc
  /\ UNCHANGED <<raw, cmd, write_fragments, blocks, cards, files>>

\* validate_rules(cfg), for either command
Validate ==
  /\ Running /\ pc = "validate"
  /\ LET v == validate_rules(cfg)
     IN  IF v.ok
         THEN pc' = (IF cmd = "validate" THEN "done" ELSE "gen_dims") /\ exc' = exc
         ELSE pc' = pc /\ exc' = v.exc
  /\ UNCHANGED <<raw, cmd, write_fragments, cfg, schema, blocks, cards, files>>

MissingTemplates ==
  SystemExit("Missing templates.dimension_score_html or templates.error_distribution_card_html",
             "", << >>)

\* generate_snippets up to and including the write of the dimension scores snippet
GenerateDimensionSnippet ==
  /\ Running /\ pc = "gen_dims"
  /\ LET templates == Sub(cfg, "templates")
         dim_tpl == Get(templates, "dimension_score_html")
         err_tpl == Get(templates, "error_distribution_card_html")
         dim == Get(cfg, "dimension_scores")
         r == RenderBlocks(dim_tpl, Sub(dim, "dimensions").m, Get(dim, "thresholds"))
     IN  IF ~Truthy(dim_tpl) \/ ~Truthy(err_tpl)
         THEN pc' = pc /\ exc' = MissingTemplates /\ UNCHANGED <<blocks, files>>
         ELSE IF ~r.ok
         THEN pc' = pc /\ exc' = r.exc /\ UNCHANGED <<blocks, files>>
         ELSE /\ blocks' = r.val
              /\ files' = [files EXCEPT !.dimension = Written(Snippet(r.val))]
              /\ pc' = "gen_cards" /\ exc' = exc
  /\ UNCHANGED <<raw, cmd, write_fragments, cfg, schema, cards>>

\* generate_snippets from the error cards to the write of their snippet
GenerateErrorSnippet ==
  /\ Running /\ pc = "gen_cards"
  /\ LET err_tpl == Get(Sub(cfg, "templates"), "error_distribution_card_html")
         err == Get(cfg, "error_distribution")
         r == RenderCards(err_tpl, Sub(err, "dimensions").m, Get(err, "thresholds"), cfg)
     IN  IF ~r.ok
         THEN pc' = pc /\ exc' = r.exc /\ UNCHANGED <<cards, files>>
         ELSE /\ cards' = r.val
              /\ files' = [files EXCEPT !.error = Written(Snippet(r.val))]
              /\ pc' = "gen_frag" /\ exc' = exc
  /\ UNCHANGED <<raw, cmd, write_fragments, cfg, schema, blocks>>

\* the optional fragments file, then the return to main
WriteFragments ==
  /\ Running /\ pc = "gen_frag"
  /\ files' = IF write_fragments
              THEN [files EXCEPT !.fragments = Written(_render_thymeleaf_fragments(blocks, cards))]
              ELSE files
  /\ pc' = "done"
  /\ UNCHANGED <<raw, cmd, write_fragments, cfg, schema, exc, blocks, cards>>

Next ==
  \/ LoadYaml
  \/ Normalize
  \/ Validate
  \/ GenerateDimensionSnippet
  \/ GenerateErrorSnippet
  \/ WriteFragments

Spec == Init /\ [][Next]_vars

---------------------------------------------------------------------------
(* Properties *)

RECURSIVE At(_, _)
\* the value under a path of keys, None where the path leaves the mappings
At(v, path) ==
  IF path = << >> THEN v
  ELSE IF ~isinstance_dict(v) THEN PyNone
  ELSE At(Get(v, Head(path)), Tail(path))

Normalized == pc \in {"validate", "gen_dims", "gen_cards", "gen_frag", "done"}
ValidateRan == (pc = "validate" /\ exc # NoExc) \/ pc \in {"gen_dims", "gen_cards", "gen_frag", "done"}
Terminated == pc = "done" \/ exc # NoExc

Severities == {"critical", "high", "medium"}
ThresholdToken(name) ==
  CASE name = "critical" -> "@@THRESH_CRITICAL@@"
    [] name = "high" -> "@@THRESH_HIGH@@"
    [] name = "medium" -> "@@THRESH_MEDIUM@@"

First(s, a) == CHOOSE n \in 1..Len(s) : s[n] = a /\ \A j \in 1..(n - 1) : s[j] # a

\* the text a rendered card carries where its template carries `token`: what stands
\* between the template's text before the token and its text after it
RenderedAt(out, tpl, token) ==
  LET i == First(tpl, token)
      j == First(out, tpl[i + 1])
      k == CHOOSE n \in 1..(j - 1) :
             out[n] = tpl[i - 1] /\ \A q \in (n + 1)..(j - 1) : out[q] # tpl[i - 1]
  IN  SubSeq(out, k + 1, j - 1)

ErrTplUsed == At(cfg, <<"templates", "error_distribution_card_html">>).s
SourceThreshold(name) == At(raw, <<"error_distribution", "thresholds", name, "value">>)
MinCount(name) == At(cfg, <<"error_distribution", "thresholds", name, "min_count">>)

\* C1: round-trip law. For a complete-dialect input whose critical/high/medium
\* thresholds are integers X, the canonical min_count is X + 1, and every rendered
\* error card carries X again in place of THRESH_CRITICAL / THRESH_HIGH /
\* THRESH_MEDIUM; for any canonical config with integer min_counts every rendered
\* card carries min_count - 1 there.
C1_RoundTrip ==
  \A name \in Severities :
    /\ (Normalized /\ schema = "complete" /\ SourceThreshold(name).t = "int")
         => MinCount(name) = PyInt(SourceThreshold(name).i + 1)
    /\ \A n \in 1..Len(cards) :
         LET shown == RenderedAt(cards[n], ErrTplUsed, ThresholdToken(name))
         IN  /\ MinCount(name).t = "int"
                  => IsIntLiteral(shown) /\ ParseInt(shown) = MinCount(name).i - 1
             /\ (schema = "complete" /\ SourceThreshold(name).t = "int")
                  => IsIntLiteral(shown) /\ ParseInt(shown) = SourceThreshold(name).i

C1_Witness ==
  /\ schema = "complete" /\ pc = "done" /\ Len(cards) = 2
  /\ \A name \in Severities : SourceThreshold(name).t = "int"
  /\ RenderedAt(cards[2], ErrTplUsed, "@@THRESH_CRITICAL@@") = <<"2">>

Percentage == At(cfg, <<"dimension_scores", "thresholds", "excellent", "percentage">>)
MinPercentage == At(cfg, <<"dimension_scores", "thresholds", "acceptable", "min_percentage">>)
ScoreRejection(e, a) == SystemExit("Invalid dimension score thresholds", "", <<e, a>>)

\* C2: validate_rules rejects, with a fatal error carrying both values, every
\* canonical config whose excellent.percentage is less than or equal to
\* acceptable.min_percentage (the equal case included), and does not reject on
\* this check a config whose excellent.percentage is strictly greater.
C2_ScoreOrdering ==
  (ValidateRan /\ Percentage.t = "float" /\ MinPercentage.t = "float") =>
     /\ Percentage.f <= MinPercentage.f
          => pc = "validate" /\ exc = ScoreRejection(Percentage, MinPercentage)
     /\ Percentage.f > MinPercentage.f
          => exc.text # "Invalid dimension score thresholds"

C2_Witness ==
  /\ pc = "validate" /\ Percentage.t = "float" /\ Percentage = MinPercentage
  /\ exc = ScoreRejection(Percentage, MinPercentage)

CountRejection(c, h, m) == SystemExit("Invalid error count ordering", "", <<c, h, m>>)
IntCounts == \A name \in Severities : MinCount(name).t = "int"
ScoresPass == Percentage.t = "float" /\ MinPercentage.t = "float" /\ Percentage.f > MinPercentage.f

\* C3: validate_rules accepts the error-count thresholds of a canonical config
\* if and only if critical.min_count > high.min_count > medium.min_count > 0;
\* every other config is rejected with a fatal error carrying the three values.
C3_CountOrdering ==
  (ValidateRan /\ ScoresPass /\ IntCounts) =>
     LET c == MinCount("critical").i
         h == MinCount("high").i
         m == MinCount("medium").i
     IN  IF c > h /\ h > m /\ m > 0
         THEN pc # "validate" /\ exc.text # "Invalid error count ordering"
         ELSE pc = "validate"
              /\ exc = CountRejection(MinCount("critical"), MinCount("high"), MinCount("medium"))

C3_Witness ==
  /\ pc = "validate" /\ ScoresPass /\ IntCounts
  /\ MinCount("critical") = MinCount("high") /\ MinCount("medium").i > 0
  /\ MinCount("high").i > MinCount("medium").i
  /\ exc.text = "Invalid error count ordering"

RequiredTemplates == {"dimension_score_html", "error_distribution_card_html"}
SuppliedTemplates ==
  IF isinstance_dict(At(raw, <<"templates">>)) THEN At(raw, <<"templates">>) ELSE EmptyDict

\* C4: legacy template merging. After _normalize_config on a legacy-dialect
\* input each required template key holds the caller's value when the caller
\* supplied a string for it and the built-in default otherwise (key missing, or
\* value not a string, also when both keys are present), and every other
\* supplied template key is kept as supplied.
C4_TemplateMerging ==
  (Normalized /\ schema = "legacy") =>
     /\ \A key \in RequiredTemplates :
          At(cfg, <<"templates", key>>) =
            IF Contains(SuppliedTemplates, key) /\ isinstance_str(Get(SuppliedTemplates, key))
            THEN Get(SuppliedTemplates, key)
            ELSE Get(DEFAULT_TEMPLATES, key)
     /\ \A n \in 1..Len(SuppliedTemplates.m) :
          SuppliedTemplates.m[n].k \notin RequiredTemplates =>
            /\ Contains(At(cfg, <<"templates">>), SuppliedTemplates.m[n].k)
            /\ At(cfg, <<"templates", SuppliedTemplates.m[n].k>>) = SuppliedTemplates.m[n].v

NoneWritten == ~files.dimension.written /\ ~files.error.written /\ ~files.fragments.written
AllRequestedWritten ==
  /\ files.dimension.written /\ files.error.written
  /\ write_fragments => files.fragments.written

\* C5: atomic outcome of generate. A finished run of the generate command has
\* written either every requested output file or none; no failure follows the
\* write of the first snippet, and a validation failure precedes any write.
C5_AtomicGenerate ==
  /\ (cmd = "generate" /\ Terminated) => (AllRequestedWritten \/ NoneWritten)
  /\ (pc = "validate") => NoneWritten

SourceDimensions ==
  IF isinstance_dict(At(raw, <<"dimension_scores", "dimensions">>))
  THEN At(raw, <<"dimension_scores", "dimensions">>) ELSE EmptyDict
CanonicalLabel(key) == At(cfg, <<"dimension_scores", "dimensions", key, "label_it">>)

AllSpaces(s) == \A n \in 1..Len(s) : s[n] \in {" ", "\n", "\t"}
\* t is s without the whitespace around it
IsTrimOf(t, s) ==
  /\ t # << >> => ~AllSpaces(<<t[1]>>) /\ ~AllSpaces(<<t[Len(t)]>>)
  /\ \E i \in 0..Len(s) :
       /\ i + Len(t) <= Len(s)
       /\ SubSeq(s, i + 1, i + Len(t)) = t
       /\ AllSpaces(SubSeq(s, 1, i))
       /\ AllSpaces(SubSeq(s, i + Len(t) + 1, Len(s)))
HasParen(s) == \E n \in 1..Len(s) : s[n] = "("
TextBeforeParen(s) == SubSeq(s, 1, First(s, "(") - 1)
\* the last character of s that is not whitespace is ")"
ClosesLast(s) == \E n \in 1..Len(s) : s[n] = ")" /\ AllSpaces(SubSeq(s, n + 1, Len(s)))

\* the complete-dialect dimension entries (mappings) that carry a string label_it
LabelledEntries ==
  {n \in 1..Len(SourceDimensions.m) :
     /\ isinstance_dict(SourceDimensions.m[n].v)
     /\ isinstance_str(Get(SourceDimensions.m[n].v, "label_it"))}

\* C6 as claimed: a source label_it containing "(" becomes the trimmed text
\* before its first "(", whatever follows the parenthesis; a label_it without
\* "(" passes through unchanged.
C6_LabelCleaning_AsClaimed ==
  (Normalized /\ schema = "complete") =>
     \A n \in LabelledEntries :
       LET source == Get(SourceDimensions.m[n].v, "label_it").s
           canonical == CanonicalLabel(SourceDimensions.m[n].k)
       IN  IF HasParen(source)
           THEN isinstance_str(canonical) /\ IsTrimOf(canonical.s, TextBeforeParen(source))
           ELSE canonical = PyStr(source)

\* C6 (amended): a source label_it that contains "(" and whose last non-blank
\* character is ")" becomes the trimmed text before its first "("; every other
\* label_it (no "(", or text following the parenthetical) becomes the label
\* with the whitespace around it trimmed and nothing else removed.
C6_LabelCleaning ==
  (Normalized /\ schema = "complete") =>
     \A n \in LabelledEntries :
       LET source == Get(SourceDimensions.m[n].v, "label_it").s
           canonical == CanonicalLabel(SourceDimensions.m[n].k)
       IN  /\ isinstance_str(canonical)
           /\ IsTrimOf(canonical.s,
                       IF HasParen(source) /\ ClosesLast(source)
                       THEN TextBeforeParen(source) ELSE source)

C6_Witness ==
  /\ Normalized /\ schema = "complete"
  /\ \E n \in LabelledEntries :
       /\ Get(SourceDimensions.m[n].v, "label_it").s = <<"a", " ", "(", ")">>
       /\ CanonicalLabel(SourceDimensions.m[n].k) = PyStr(<<"a">>)

DetectedComplete == isinstance_dict(raw) /\ _is_complete_schema(raw)
ScorePaths ==
  IF DetectedComplete
  THEN { <<"dimension_scores", "thresholds", "excellent", "value">>,
         <<"dimension_scores", "thresholds", "acceptable", "value">> }
  ELSE { <<"dimension_scores", "thresholds", "excellent", "percentage">>,
         <<"dimension_scores", "thresholds", "acceptable", "min_percentage">> }
CountPaths ==
  {<<"error_distribution", "thresholds", name, IF DetectedComplete THEN "value" ELSE "min_count">> :
     name \in Severities}
NotNumeric(v) ==
  ~(v.t \in {"int", "float", "bool"} \/ (v.t = "str" /\ IsIntLiteral(v.s)))
CardLabel == [completeness |-> "COMPLETENESS", accuracy |-> "ACCURACY", consistency |-> "CONSISTENCY"]
CardRank == [completeness |-> 1, accuracy |-> 2, consistency |-> 3]
CanonicalCards == At(cfg, <<"error_distribution", "dimensions">>)
\* the source entry under key is a mapping with a truthy variable_count
CountsErrors(key) ==
  /\ Contains(SourceDimensions, key)
  /\ isinstance_dict(Get(SourceDimensions, key))
  /\ Truthy(Get(Get(SourceDimensions, key), "variable_count"))

\* C7: error-card emission in the complete dialect. The canonical
\* error_distribution.dimensions holds a card for key k exactly when k is one of
\* completeness, accuracy, consistency and the source entry k has a truthy
\* variable_count; the card's variable is that variable_count, its label the
\* upper-case key, and the cards stand in the order completeness, accuracy,
\* consistency whatever the source order. No dimension entry makes the
\* normalization fail: it fails on a threshold value only.
C7_ErrorCards ==
  /\ (pc = "normalize" /\ exc # NoExc) =>
       /\ exc.kind = "SystemExit"
       /\ \E path \in ScorePaths \cup CountPaths : NotNumeric(At(raw, path))
  /\ (Normalized /\ schema = "complete") =>
     /\ isinstance_dict(CanonicalCards)
     /\ \A key \in DimKeys :
          Contains(CanonicalCards, key) <=> (key \in DOMAIN CardLabel /\ CountsErrors(key))
     /\ \A n \in 1..Len(CanonicalCards.m) :
          LET key == CanonicalCards.m[n].k
              card == CanonicalCards.m[n].v
          IN  /\ key \in DOMAIN CardLabel
              /\ Get(card, "variable") = Get(Get(SourceDimensions, key), "variable_count")
              /\ Get(card, "label") = PyStr(<<CardLabel[key]>>)
              /\ \A q \in 1..(n - 1) : CardRank[CanonicalCards.m[q].k] < CardRank[key]

C7_Witness ==
  /\ Normalized /\ schema = "complete"
  /\ Keys(SourceDimensions) = <<"consistency", "completeness">>
  /\ Keys(CanonicalCards) = <<"completeness", "consistency">>

\* a mapping with both sections, one of whose required numbers is absent or not numeric
BadThreshold ==
  /\ isinstance_dict(At(raw, <<"dimension_scores">>))
  /\ isinstance_dict(At(raw, <<"error_distribution">>))
  /\ \E path \in ScorePaths \cup CountPaths : NotNumeric(At(raw, path))

\* C8: a run, in either dialect, over a config whose required threshold is absent
\* or not numeric ends with the tool's fatal configuration error naming the
\* offending path and value, never with an unhandled conversion error.
C8_ConfigErrors ==
  (Terminated /\ BadThreshold) =>
     exc.kind = "SystemExit" /\ exc.path # "" /\ exc.vals # << >>

SectionsAreMappings ==
  /\ isinstance_dict(At(raw, <<"global">>))
  /\ isinstance_dict(At(raw, <<"dimension_scores">>))
  /\ isinstance_dict(At(raw, <<"error_distribution">>))
\* `enabled` is a key of dimension_scores itself
EnabledOnTop == Contains(At(raw, <<"dimension_scores">>), "enabled")
Blocks(d) == IF isinstance_dict(d) THEN {d.m[n].v : n \in 1..Len(d.m)} ELSE {}
\* `enabled` is a key of a threshold block or of a per-dimension block
EnabledNested ==
  \E block \in Blocks(At(raw, <<"dimension_scores", "thresholds">>))
               \cup Blocks(At(raw, <<"dimension_scores", "dimensions">>)) :
     isinstance_dict(block) /\ Contains(block, "enabled")
NormalizeRan == Normalized \/ (pc = "normalize" /\ exc # NoExc)
\* the tag the run went by: the complete branch was taken
TaggedComplete == (Normalized /\ schema = "complete") \/ (pc = "normalize" /\ exc # NoExc)

\* C9 as claimed: the tag is complete iff global, dimension_scores and
\* error_distribution are mappings and `enabled` is a key nested in a
\* per-dimension or threshold block of dimension_scores.
C9_SchemaDetection_AsClaimed ==
  NormalizeRan => (TaggedComplete <=> (SectionsAreMappings /\ EnabledNested))

\* C9 (amended): the tag is complete iff global, dimension_scores and
\* error_distribution are mappings and `enabled` is a key of the
\* dimension_scores mapping itself; every other mapping is tagged legacy, and
\* the legacy branch never fails.
C9_SchemaDetection ==
  NormalizeRan =>
     /\ TaggedComplete <=> (SectionsAreMappings /\ EnabledOnTop)
     /\ ~TaggedComplete => (schema = "legacy" /\ Normalized)

C9_Witness ==
  /\ Normalized /\ schema = "legacy"
  /\ SectionsAreMappings /\ EnabledNested /\ ~EnabledOnTop

\* C10: normalization is idempotent on the canonical form. The canonical config
\* of a complete-dialect input, given to _normalize_config again, is tagged
\* legacy and comes back with the same dimension_scores and error_distribution
\* (no second + 1 on min_count, no second label cleaning).
C10_Idempotent ==
  (Normalized /\ schema = "complete") =>
     LET again == _normalize_config(cfg)
     IN  /\ again.ok /\ again.schema = "legacy"
         /\ At(again.val, <<"dimension_scores">>) = At(cfg, <<"dimension_scores">>)
         /\ At(again.val, <<"error_distribution">>) = At(cfg, <<"error_distribution">>)

C10_Witness ==
  /\ pc = "done" /\ schema = "complete"
  /\ Len(At(cfg, <<"dimension_scores", "dimensions">>).m) = 2
  /\ Len(CanonicalCards.m) = 1
  /\ MinCount("critical") = PyInt(3)
  /\ _normalize_config(cfg).schema = "legacy"

\* the text of the dimension scores snippet, once written
DimensionSnippet == files.dimension.text
CanonicalDimensions == At(cfg, <<"dimension_scores", "dimensions">>).m

\* `needle` stands in `hay` as it is, in one piece
Occurs(needle, hay) ==
  \E i \in 0..(Len(hay) - Len(needle)) : SubSeq(hay, i + 1, i + Len(needle)) = needle

HasMarker(text) == \E n \in 1..Len(text) : text[n] \in Markers

\* no field of a canonical dimension carries a placeholder in its own text
FieldsMarkerFree ==
  \A n \in 1..Len(CanonicalDimensions) :
     LET d == CanonicalDimensions[n].v
     IN  \A j \in 1..Len(d.m) : ~HasMarker(str(d.m[j].v))

\* _render_dimension_block takes `token` out of a text made of it alone, for a
\* dimension with empty fields
TokenReplaced(token) ==
  ~HasMarker(_render_dimension_block(PyStr(<<token>>), DimensionOut(EmptyDict),
                                     PyDict(<< Item("excellent", PyDict(<<Item("percentage", GoodExcellent)>>)),
                                               Item("acceptable",
                                                    PyDict(<<Item("min_percentage", GoodAcceptable)>>)) >>)).val.s)

DimensionRendered == schema = "complete" /\ files.dimension.written

\* C11: complete token resolution. Every placeholder of the built-in dimension
\* template is one that _render_dimension_block replaces; and for a valid
\* complete-dialect input whose dimension fields carry no placeholder of their
\* own, the dimension scores snippet written by generate holds no placeholder
\* any more and holds, as they are, the variable and the error_variable of
\* every canonical dimension.
C11_TokenResolution ==
  /\ \A n \in 1..Len(DEFAULT_dimension_score_html) :
        DEFAULT_dimension_score_html[n] \in Markers => TokenReplaced(DEFAULT_dimension_score_html[n])
  /\ (DimensionRendered /\ FieldsMarkerFree) =>
        /\ ~HasMarker(DimensionSnippet)
        /\ \A n \in 1..Len(CanonicalDimensions) :
              LET d == CanonicalDimensions[n].v
              IN  /\ Occurs(str(Get(d, "variable")), DimensionSnippet)
                  /\ Occurs(str(Get(d, "error_variable")), DimensionSnippet)

C11_Witness ==
  /\ pc = "done" /\ DimensionRendered /\ FieldsMarkerFree
  /\ Len(CanonicalDimensions) = 2
  /\ Get(CanonicalDimensions[1].v, "variable") = PyInt(7)
  /\ Get(CanonicalDimensions[1].v, "error_variable") = PyStr(<<"errors.", "timeliness">>)
  /\ Occurs(<<"7">>, DimensionSnippet)
  /\ Occurs(<<"errors.", "timeliness">>, DimensionSnippet)
  /\ Occurs(<<"scores.", "accuracy">>, DimensionSnippet)
  /\ ~HasMarker(DimensionSnippet)

\* a placeholder carried by a field is not covered: the variable "@@LABEL_IT@@"
\* is put in after "@@LABEL_IT@@" was replaced, and stays in the snippet
MarkerInFieldStays ==
  /\ DimensionRendered /\ ~FieldsMarkerFree
  /\ Get(CanonicalDimensions[1].v, "variable") = PyStr(<<"@@LABEL_IT@@">>)
  /\ HasMarker(DimensionSnippet)

====
